---------------------------- MODULE Spec2Model ----------------------------
(***************************************************************************)
(* State-machine model of three scripts of the mxnet source tree:          *)
(*   benchmark/python/tvmop/benchmark_tvmop.py  (measure_cost,             *)
(*                                               test_tvm_dot)             *)
(*   ci/build_windows.py                        (windows_build)            *)
(*   python/mxnet/gluon/contrib/estimator/utils.py                         *)
(*                                  (_check_metrics,                       *)
(*                                   _check_handler_metric_ref)            *)
(* Each script has its own specification; the variables of the other       *)
(* scripts stay at their idle values.                                      *)
(***************************************************************************)
EXTENDS Integers, Sequences, FiniteSets, TLC

VARIABLES
    \* ---- benchmark_tvmop.py: frame of measure_cost
    mpc,        \* position inside measure_cost
    repeat,     \* parameter repeat
    func_name,  \* parameter func_name
    args,       \* parameter *args
    iter,       \* iterations of "for _ in range(repeat)" completed
    start,      \* local start
    end_,       \* local end
    ret,        \* value returned by measure_cost (a fraction <<diff, repeat>>)
    err,        \* exception in flight ("None" when there is none)
    now,        \* last value read from the wall clock
    events,     \* what the current measure_cost call has done so far
    \* ---- benchmark_tvmop.py: frame of test_tvm_dot
    tpc,        \* position inside test_tvm_dot
    idx,        \* number of sizes taken from the range so far
    cand,       \* which of the three measurement blocks is running
    a, b,       \* locals a and b
    cost,       \* local cost
    nextId,     \* identity of the next array the backend allocates
    out,        \* lines printed to standard output
    \* ---- build_windows.py: windows_build
    bpc,        \* position inside windows_build
    flavour,    \* args.flavour
    vcvars_ver, \* args.vcvars_ver
    path_state, \* args.output on disk: "absent", "stale", "empty", "built"
    build_try,  \* local build_try
    bret,       \* local ret: <<>> while unbound, else <<status>>
    env,        \* CXXFLAGS of the environment handed to cmake
    cmds,       \* shell commands run so far
    rets,       \* return statuses of the ninja invocations so far
    packaged,   \* number of calls of windows_package
    exit_code,  \* <<status>> passed to sys.exit (<<>> when not called)
    berr,       \* exception that left windows_build ("None" when none)
    \* ---- estimator/utils.py
    upc,        \* position of the utility call
    handler,    \* handler: attribute name -> value
    known_metrics,
    attr_i,     \* number of attributes of dir(handler) already visited
    metrics_in, \* argument of _check_metrics
    uresult     \* outcome of the utility call

measureVars == <<mpc, repeat, func_name, args, iter, start, end_, ret, err, now, events>>
sweepVars   == <<tpc, idx, cand, a, b, cost, nextId, out>>
buildVars   == <<bpc, flavour, vcvars_ver, path_state, build_try, bret, env, cmds,
                 rets, packaged, exit_code, berr>>
utilVars    == <<upc, handler, known_metrics, attr_i, metrics_in, uresult>>
vars        == <<measureVars, sweepVars, buildVars, utilVars>>

\* ------------------------------------------------------------------ bounds
MaxRepeat == 3      \* largest repeat handed to measure_cost directly
MaxNegRepeat == 2   \* repeat ranges down to -MaxNegRepeat
MaxClock == 2       \* the wall clock reads 0..MaxClock

\* =========================================================================
\*  benchmark/python/tvmop/benchmark_tvmop.py
\* =========================================================================

\* The three operators the benchmark compares, and the labels it prints.
Funcs  == <<"tvm_dot", "tvm_dot_fallback", "dot">>
Labels == <<"dispatch", "fallback", "dot">>

\* mx.nd.random.uniform(shape=..., dtype='float32'): a freshly allocated array.
Uniform(shape, id) == [shape |-> shape, dtype |-> "float32", id |-> id]

\* len(range(repeat))
RangeLenShort(r) == IF r > 1 THEN r - 1 ELSE 0
RangeLen(r) == IF r > 0 THEN r ELSE 0

\* diff / repeat: true division, kept exact as the pair <<diff, repeat>>;
\* Python raises ZeroDivisionError for a zero divisor.
TrueDivInf(diff, r) == [raised |-> "None", value |-> <<diff, r>>]
TrueDiv(diff, r) ==
    IF r = 0 THEN [raised |-> "ZeroDivisionError", value |-> <<>>]
    ELSE [raised |-> "None", value |-> <<diff, r>>]

\* An exception leaving func_name is not caught anywhere in measure_cost or
\* test_tvm_dot: it reaches the caller as raised.
PropagateWrapped(e) == "RuntimeError"
Propagate(e) == e

\* Position reached when the for loop of measure_cost is exhausted.
AfterLoopNoBarrier == "end"
AfterLoop == "waitall2"

\* line 26: mx.nd.waitall()
Waitall1 ==
    /\ mpc = "waitall1"
    /\ events' = Append(events, [e |-> "waitall"])
    /\ mpc' = "start"
    /\ UNCHANGED <<repeat, func_name, args, iter, start, end_, ret, err, now>>
    /\ UNCHANGED <<sweepVars, buildVars, utilVars>>

\* line 27: start = time.time().  A reading is any value from the previous
\* reading up to MaxClock.
ReadStart ==
    /\ mpc = "start"
    /\ \E t \in now..MaxClock :
         /\ start' = t
         /\ now' = t
    /\ events' = Append(events, [e |-> "start"])
    /\ mpc' = "loop"
    /\ UNCHANGED <<repeat, func_name, args, iter, end_, ret, err>>
    /\ UNCHANGED <<sweepVars, buildVars, utilVars>>

\* lines 28-29: one iteration of the loop; func_name(*args) returns or raises.
LoopCall ==
    /\ mpc = "loop"
    /\ iter < RangeLen(repeat)
    /\ events' = Append(events, [e |-> "call", f |-> func_name, args |-> args])
    /\ \/ /\ iter' = iter + 1
          /\ UNCHANGED <<mpc, err>>
       \/ /\ err' = Propagate("CandidateFailure")
          /\ mpc' = "raised"
          /\ UNCHANGED iter
    /\ UNCHANGED <<repeat, func_name, args, start, end_, ret, now>>
    /\ UNCHANGED <<sweepVars, buildVars, utilVars>>

\* line 28: range(repeat) is exhausted.
LoopExit ==
    /\ mpc = "loop"
    /\ iter >= RangeLen(repeat)
    /\ mpc' = AfterLoop
    /\ UNCHANGED <<repeat, func_name, args, iter, start, end_, ret, err, now, events>>
    /\ UNCHANGED <<sweepVars, buildVars, utilVars>>

\* line 30: mx.nd.waitall()
Waitall2 ==
    /\ mpc = "waitall2"
    /\ events' = Append(events, [e |-> "waitall"])
    /\ mpc' = "end"
    /\ UNCHANGED <<repeat, func_name, args, iter, start, end_, ret, err, now>>
    /\ UNCHANGED <<sweepVars, buildVars, utilVars>>

\* line 31: end = time.time()
ReadEnd ==
    /\ mpc = "end"
    /\ \E t \in now..MaxClock :
         /\ end_' = t
         /\ now' = t
    /\ events' = Append(events, [e |-> "end"])
    /\ mpc' = "div"
    /\ UNCHANGED <<repeat, func_name, args, iter, start, ret, err>>
    /\ UNCHANGED <<sweepVars, buildVars, utilVars>>

\* lines 32-33: diff = end - start; return diff / repeat
Return ==
    /\ mpc = "div"
    /\ LET q == TrueDiv(end_ - start, repeat) IN
         IF q.raised = "None"
         THEN /\ ret' = q.value
              /\ mpc' = "returned"
              /\ err' = err
         ELSE /\ err' = Propagate(q.raised)
              /\ mpc' = "raised"
              /\ ret' = ret
    /\ UNCHANGED <<repeat, func_name, args, iter, start, end_, now, events>>
    /\ UNCHANGED <<sweepVars, buildVars, utilVars>>

\* range(start, stop, step) for a positive step, as a list.
RangeInclusive(lo, hi, step) ==
    LET len == IF hi >= lo THEN ((hi - lo) \div step) + 1 ELSE 0
    IN  [j \in 1..len |-> lo + (j - 1) * step]
Range(lo, hi, step) ==
    LET len == IF hi > lo THEN ((hi - lo) + step - 1) \div step ELSE 0
    IN  [j \in 1..len |-> lo + (j - 1) * step]

RangeStart == 1000
RangeStop == 1100
RangeStep == 4
BenchRepeat == 2

\* line 38: list(range(1000, 1100, 4))
Sizes == Range(RangeStart, RangeStop, RangeStep)

\* lines 39-41: m = k = n = i
Dim == Sizes[idx]

\* line 38: the for statement takes the next size or ends the sweep.
ForNext ==
    /\ tpc = "for"
    /\ IF idx < Len(Sizes)
       THEN /\ idx' = idx + 1
            /\ tpc' = "print_shape"
       ELSE /\ tpc' = "done"
            /\ idx' = idx
    /\ UNCHANGED <<cand, a, b, cost, nextId, out>>
    /\ UNCHANGED <<measureVars, buildVars, utilVars>>

\* line 42: print(f"{m} * {k} X {k} * {n}")
PrintShape ==
    /\ tpc = "print_shape"
    /\ out' = Append(out, [kind |-> "shape", m |-> Dim, k |-> Dim, n |-> Dim])
    /\ cand' = 1
    /\ tpc' = "gen_a"
    /\ UNCHANGED <<idx, a, b, cost, nextId>>
    /\ UNCHANGED <<measureVars, buildVars, utilVars>>

\* lines 43, 47, 51: a = mx.nd.random.uniform(shape=(m, k), dtype='float32')
GenA ==
    /\ tpc = "gen_a"
    /\ a' = Uniform(<<Dim, Dim>>, nextId)
    /\ nextId' = nextId + 1
    /\ tpc' = "gen_b"
    /\ UNCHANGED <<idx, cand, b, cost, out>>
    /\ UNCHANGED <<measureVars, buildVars, utilVars>>

\* lines 44, 48, 52: b = mx.nd.random.uniform(shape=(k, n), dtype='float32')
GenB ==
    /\ tpc = "gen_b"
    /\ b' = Uniform(<<Dim, Dim>>, nextId)
    /\ nextId' = nextId + 1
    /\ tpc' = "call"
    /\ UNCHANGED <<idx, cand, a, cost, out>>
    /\ UNCHANGED <<measureVars, buildVars, utilVars>>

\* lines 45, 49, 53: measure_cost(2, <operator>, a, b) is entered.
CallMeasure ==
    /\ tpc = "call"
    /\ repeat' = BenchRepeat
    /\ func_name' = Funcs[cand]
    /\ args' = <<a, b>>
    /\ iter' = 0
    /\ events' = <<>>
    /\ mpc' = "waitall1"
    /\ tpc' = "in_measure"
    /\ UNCHANGED <<start, end_, ret, err, now>>
    /\ UNCHANGED <<idx, cand, a, b, cost, nextId, out>>
    /\ UNCHANGED <<buildVars, utilVars>>

\* lines 45, 49, 53: cost = <the value measure_cost returned>
MeasureReturn ==
    /\ tpc = "in_measure"
    /\ mpc = "returned"
    /\ cost' = ret
    /\ mpc' = "idle"
    /\ tpc' = "print_cost"
    /\ UNCHANGED <<repeat, func_name, args, iter, start, end_, ret, err, now, events>>
    /\ UNCHANGED <<idx, cand, a, b, nextId, out>>
    /\ UNCHANGED <<buildVars, utilVars>>

\* lines 45, 49, 53: measure_cost raised; nothing in test_tvm_dot catches it.
MeasureRaise ==
    /\ tpc = "in_measure"
    /\ mpc = "raised"
    /\ mpc' = "idle"
    /\ tpc' = "raised"
    /\ UNCHANGED <<repeat, func_name, args, iter, start, end_, ret, err, now, events>>
    /\ UNCHANGED <<idx, cand, a, b, cost, nextId, out>>
    /\ UNCHANGED <<buildVars, utilVars>>

\* lines 46, 50, 54: print(f"<label> cost: {cost * 1000} ms").  The line is
\* kept as its label; its number is the value cost holds at this step.
PrintCost ==
    /\ tpc = "print_cost"
    /\ out' = Append(out, [kind |-> "cost", label |-> Labels[cand]])
    /\ IF cand < Len(Funcs)
       THEN /\ cand' = cand + 1
            /\ tpc' = "gen_a"
       ELSE /\ cand' = cand
            /\ tpc' = "for"
    /\ UNCHANGED <<idx, a, b, cost, nextId>>
    /\ UNCHANGED <<measureVars, buildVars, utilVars>>

\* ------------------------------------------------- idle values of a script
BuildIdle ==
    /\ bpc = "idle" /\ flavour = "WIN_CPU" /\ vcvars_ver = "None"
    /\ path_state = "absent" /\ build_try = 0 /\ bret = <<>>
    /\ env = "None" /\ cmds = <<>> /\ rets = <<>> /\ packaged = 0
    /\ exit_code = <<>> /\ berr = "None"

UtilIdle ==
    /\ upc = "idle" /\ handler = <<>> /\ known_metrics = {}
    /\ attr_i = 0 /\ metrics_in = <<>> /\ uresult = <<>>

MeasureIdle ==
    /\ mpc = "idle" /\ repeat = 0 /\ func_name = "None" /\ args = <<>>
    /\ iter = 0 /\ start = 0 /\ end_ = 0 /\ ret = <<>> /\ err = "None"
    /\ now = 0 /\ events = <<>>

SweepIdle ==
    /\ tpc = "idle" /\ idx = 0 /\ cand = 0 /\ a = <<>> /\ b = <<>>
    /\ cost = <<>> /\ nextId = 1 /\ out = <<>>

\* ------------------------------------------ measure_cost called on its own
\* line 23: measure_cost(repeat, func_name, *args) is entered by a caller
\* that passes any repeat, any of the operators and two arrays.
InitMeasure ==
    /\ mpc = "waitall1"
    /\ repeat \in (0 - MaxNegRepeat)..MaxRepeat
    /\ func_name \in {Funcs[c] : c \in 1..Len(Funcs)}
    /\ \E n \in {4, 8} : args = <<Uniform(<<n, n>>, 1), Uniform(<<n, n>>, 2)>>
    /\ iter = 0 /\ start = 0 /\ end_ = 0 /\ ret = <<>> /\ err = "None"
    /\ now \in 0..MaxClock /\ events = <<>>
    /\ tpc = "direct" /\ idx = 0 /\ cand = 0 /\ a = <<>> /\ b = <<>>
    /\ cost = <<>> /\ nextId = 3 /\ out = <<>>
    /\ BuildIdle /\ UtilIdle

NextMeasure ==
    \/ Waitall1 \/ ReadStart \/ LoopCall \/ LoopExit
    \/ Waitall2 \/ ReadEnd \/ Return

SpecMeasure == InitMeasure /\ [][NextMeasure]_vars

\* ------------------------------------------------- the script run directly
\* lines 56-57: test_tvm_dot() is entered.
InitSweep ==
    /\ MeasureIdle
    /\ tpc = "for" /\ idx = 0 /\ cand = 0 /\ a = <<>> /\ b = <<>>
    /\ cost = <<>> /\ nextId = 1 /\ out = <<>>
    /\ BuildIdle /\ UtilIdle

NextSweep ==
    \/ ForNext \/ PrintShape \/ GenA \/ GenB \/ CallMeasure
    \/ Waitall1 \/ ReadStart \/ LoopCall \/ LoopExit
    \/ Waitall2 \/ ReadEnd \/ Return
    \/ MeasureReturn \/ MeasureRaise \/ PrintCost

SpecSweep == InitSweep /\ [][NextSweep]_vars

\* =========================================================================
\*  Properties of measure_cost (checked under SpecMeasure)
\* =========================================================================
CallEvents == SelectSeq(events, LAMBDA x : x.e = "call")
Kind(i) == events[i].e
MeasureEnded == mpc \in {"returned", "raised"}

\* C1: for repeat >= 1 and an operation that does not raise, a call of
\* measure_cost invokes the operation exactly repeat times, every time with
\* the operator and the inputs it was given, and then returns a value; at no
\* moment has it invoked the operation more than repeat times.
C1_ExactlyRepeatCalls ==
    repeat >= 1 =>
        /\ Len(CallEvents) <= repeat
        /\ \A i \in 1..Len(CallEvents) :
              CallEvents[i].f = func_name /\ CallEvents[i].args = args
        /\ (mpc \in {"waitall2", "end", "div", "returned"} =>
              Len(CallEvents) = repeat)
        /\ (mpc = "returned" => Len(ret) = 2 /\ ret[2] = repeat)
        /\ (mpc = "raised" => err = "CandidateFailure")

C1_Witness ==
    /\ mpc = "returned" /\ repeat >= 2
    /\ Len(CallEvents) = repeat /\ ret = <<end_ - start, repeat>>

\* C2: the events of a call occur in the order barrier, start-time reading,
\* invocations, barrier, end-time reading: no invocation precedes the first
\* barrier or follows the second, the end-time reading is last and directly
\* follows the second barrier, and a call that returns has made all of them.
C2_EventOrder ==
    /\ \A i \in 1..Len(events) :
          /\ (i = 1) => Kind(i) = "waitall"
          /\ (i = 2) => Kind(i) = "start"
          /\ (Kind(i) = "start") => i = 2
          /\ (Kind(i) = "call") =>
                i >= 3 /\ \A j \in 3..i : Kind(j) = "call"
          /\ (Kind(i) = "waitall" /\ i > 1) =>
                i >= 3 /\ \A j \in 3..(i - 1) : Kind(j) = "call"
          /\ (Kind(i) = "end") =>
                i = Len(events) /\ i >= 4 /\ Kind(i - 1) = "waitall"
    /\ (mpc \in {"div", "returned"} =>
          Len(events) >= 4 /\ Kind(Len(events)) = "end")
    /\ (mpc = "raised" /\ err = "ZeroDivisionError" =>
          Len(events) >= 4 /\ Kind(Len(events)) = "end")

C2_Witness ==
    /\ mpc = "returned" /\ repeat >= 2
    /\ Len(events) = repeat + 4
    /\ Kind(repeat + 3) = "waitall" /\ Kind(repeat + 4) = "end"

C4_InvalidArgumentBelowZero ==
    (repeat < 0 /\ MeasureEnded) =>
        /\ mpc = "raised" /\ err = "InvalidArgument"
        /\ events = <<>> /\ ret = <<>>

\* =========================================================================
\*  Properties of test_tvm_dot (checked under SpecSweep)
\* =========================================================================
\* The output the claim describes: for the sizes 1000, 1004, ..., 1096 in
\* ascending order one shape line, then dispatch, fallback, dot.
ClaimedSizes == [j \in 1..25 |-> 1000 + 4 * (j - 1)]
ClaimedSizeCount == Len(ClaimedSizes)
ClaimedSize(j) == ClaimedSizes[j]
ClaimedLabels == <<"dispatch", "fallback", "dot">>
ClaimedFuncs == <<"tvm_dot", "tvm_dot_fallback", "dot">>
ClaimedLine(p) ==
    LET j == ((p - 1) \div 4) + 1
        r == (p - 1) % 4
    IN  IF r = 0
        THEN [kind |-> "shape", m |-> ClaimedSize(j), k |-> ClaimedSize(j),
              n |-> ClaimedSize(j)]
        ELSE [kind |-> "cost", label |-> ClaimedLabels[r]]
OutIsClaimedPrefix(len) ==
    /\ Len(out) = len
    /\ \A p \in 1..len : out[p] = ClaimedLine(p)
TimedRegion == mpc \in {"loop", "waitall2", "end"}

\* C5: the sweep visits 1000, 1004, ..., 1096 in ascending order; per size it
\* prints the shape line and then measures and reports tvm_dot (dispatch),
\* tvm_dot_fallback (fallback) and dot in that order, every line of a size
\* before anything of a later size; the two inputs of a measurement are the
\* two arrays allocated last before measure_cost was entered, and no array
\* is allocated between the start-time and the end-time reading.
C5_SweepOrder ==
    /\ Len(out) <= 4 * ClaimedSizeCount
    /\ \A p \in 1..Len(out) : out[p] = ClaimedLine(p)
    /\ (tpc = "in_measure" =>
          /\ Len(out) = 4 * (idx - 1) + cand
          /\ func_name = ClaimedFuncs[cand]
          /\ repeat = 2
          /\ args = <<a, b>>
          /\ a.shape = <<ClaimedSize(idx), ClaimedSize(idx)>>
          /\ b.shape = <<ClaimedSize(idx), ClaimedSize(idx)>>
          /\ a.id = nextId - 2 /\ b.id = nextId - 1)
    /\ (TimedRegion => tpc = "in_measure")
    /\ (tpc = "done" => Len(out) = 4 * ClaimedSizeCount)

C5_Witness ==
    /\ tpc = "done"
    /\ Len(out) = 100
    /\ out[97].m = 1096 /\ out[100].label = "dot"

\* C6 as written: a candidate raising at the second size aborts the sweep
\* with every candidate of the first size reported and no measurement of
\* the second size reported, whichever candidate raised.
C6_NoReportForSecondSize ==
    (tpc = "raised" /\ idx = 2) =>
        /\ err = "CandidateFailure"
        /\ OutIsClaimedPrefix(5)

\* C6 amended: a candidate raising at the second size aborts the sweep with
\* that error unmodified, with every candidate of the first size reported,
\* with the candidates measured before the raising one at the second size
\* reported too, and with no report for the raising candidate, for a later
\* candidate or for a later size.
C6_ReportsStopAtRaise ==
    (tpc = "raised" /\ idx = 2) =>
        /\ err = "CandidateFailure"
        /\ func_name = ClaimedFuncs[cand]
        /\ OutIsClaimedPrefix(4 + 1 + (cand - 1))

C6_Witness ==
    /\ tpc = "raised" /\ idx = 2 /\ cand = 3
    /\ Len(out) = 7 /\ out[7].label = "fallback"

\* =========================================================================
\*  ci/build_windows.py: windows_build
\* =========================================================================

\* line 152: MAXIMUM_TRY = 1
MAXIMUM_TRY == 1

\* lines 49-55: the build flavours (the choices of --flavour).
BuildFlavours == {"WIN_CPU", "WIN_CPU_ONEDNN", "WIN_CPU_ONEDNN_MKL",
                  "WIN_CPU_MKL", "WIN_GPU", "WIN_GPU_ONEDNN"}

\* line 163: 'GPU' in args.flavour, over the six flavour names.
HasGPU(fl) == fl \in {"WIN_GPU", "WIN_GPU_ONEDNN"}

\* Statuses a ninja run can end with.
NinjaStatuses == {0, 1, 2}

\* line 155: the condition of the while statement.
LoopCondInclusive(bt) == bt <= MAXIMUM_TRY
LoopCond(bt) == bt < MAXIMUM_TRY

\* lines 165-168 and 172-175: the shell command of a tool.
Cmd(tool) ==
    [tool |-> tool, vcvars_ver |-> vcvars_ver,
     flags |-> IF tool = "cmake" THEN flavour ELSE "None"]

CmakeRuns == Len(SelectSeq(cmds, LAMBDA c : c.tool = "cmake"))

\* line 155: while build_try < MAXIMUM_TRY
WhileTest ==
    /\ bpc = "while"
    /\ bpc' = IF LoopCond(build_try) THEN "prepare" ELSE "after"
    /\ UNCHANGED <<flavour, vcvars_ver, path_state, build_try, bret, env, cmds,
                   rets, packaged, exit_code, berr>>
    /\ UNCHANGED <<measureVars, sweepVars, utilVars>>

\* lines 156-158: remove the output directory if it exists, then create it.
PrepareDir ==
    /\ bpc = "prepare"
    /\ path_state' = "empty"
    /\ bpc' = "cmake"
    /\ UNCHANGED <<flavour, vcvars_ver, build_try, bret, env, cmds, rets,
                   packaged, exit_code, berr>>
    /\ UNCHANGED <<measureVars, sweepVars, utilVars>>

\* lines 160-170: check_call of cmake; a non-zero status raises.
Cmake ==
    /\ bpc = "cmake"
    /\ env' = IF HasGPU(flavour) THEN "/FS /MD /O2 /Ob2" ELSE "None"
    /\ cmds' = Append(cmds, Cmd("cmake"))
    /\ \/ /\ path_state' = "configured"
          /\ bpc' = "ninja"
          /\ berr' = berr
       \/ /\ berr' = "CalledProcessError"
          /\ bpc' = "raised"
          /\ path_state' = path_state
    /\ UNCHANGED <<flavour, vcvars_ver, build_try, bret, rets, packaged, exit_code>>
    /\ UNCHANGED <<measureVars, sweepVars, utilVars>>

\* lines 172-179: ret = call(<ninja command>, shell=True)
Ninja ==
    /\ bpc = "ninja"
    /\ cmds' = Append(cmds, Cmd("ninja"))
    /\ \E status \in NinjaStatuses :
         /\ bret' = <<status>>
         /\ rets' = Append(rets, status)
         /\ path_state' = IF status = 0 THEN "built" ELSE "partial"
    /\ bpc' = "check"
    /\ UNCHANGED <<flavour, vcvars_ver, build_try, env, packaged, exit_code, berr>>
    /\ UNCHANGED <<measureVars, sweepVars, utilVars>>

\* lines 182-190: count a failed build, or leave the loop.
CheckRet ==
    /\ bpc = "check"
    /\ IF bret[1] # 0
       THEN /\ build_try' = build_try + 1
            /\ bpc' = "while"
       ELSE /\ build_try' = build_try
            /\ bpc' = "after"
    /\ UNCHANGED <<flavour, vcvars_ver, path_state, bret, env, cmds, rets,
                   packaged, exit_code, berr>>
    /\ UNCHANGED <<measureVars, sweepVars, utilVars>>

\* lines 192-196: package the build, or log "Build failed" and sys.exit(1).
\* ret is unbound when the loop body never ran.
Finish ==
    /\ bpc = "after"
    /\ IF bret = <<>>
       THEN /\ berr' = "NameError"
            /\ bpc' = "raised"
            /\ UNCHANGED <<packaged, exit_code>>
       ELSE IF bret[1] = 0
       THEN /\ packaged' = packaged + 1
            /\ bpc' = "package"
            /\ UNCHANGED <<exit_code, berr>>
       ELSE /\ exit_code' = <<1>>
            /\ bpc' = "exited"
            /\ UNCHANGED <<packaged, berr>>
    /\ UNCHANGED <<flavour, vcvars_ver, path_state, build_try, bret, env, cmds, rets>>
    /\ UNCHANGED <<measureVars, sweepVars, utilVars>>

\* lines 199-223: windows_package copies the libraries and runs 7z with
\* check_call, which raises on a non-zero status.
Package ==
    /\ bpc = "package"
    /\ cmds' = Append(cmds, [tool |-> "7z", vcvars_ver |-> "None", flags |-> "None"])
    /\ \/ /\ bpc' = "done"
          /\ berr' = berr
       \/ /\ berr' = "CalledProcessError"
          /\ bpc' = "raised"
    /\ UNCHANGED <<flavour, vcvars_ver, path_state, build_try, bret, env, rets,
                   packaged, exit_code>>
    /\ UNCHANGED <<measureVars, sweepVars, utilVars>>

\* lines 141-153: windows_build(args) is entered with any flavour, with or
\* without --vcvars_ver, and with or without a previous output directory.
InitBuild ==
    /\ bpc = "while"
    /\ flavour \in BuildFlavours
    /\ vcvars_ver \in {"None", "14.16"}
    /\ path_state \in {"absent", "stale"}
    /\ build_try = 0 /\ bret = <<>> /\ env = "None"
    /\ cmds = <<>> /\ rets = <<>> /\ packaged = 0
    /\ exit_code = <<>> /\ berr = "None"
    /\ MeasureIdle /\ SweepIdle /\ UtilIdle

NextBuild ==
    \/ WhileTest \/ PrepareDir \/ Cmake \/ Ninja \/ CheckRet \/ Finish \/ Package

SpecBuild == InitBuild /\ [][NextBuild]_vars

BuildEnded == bpc \in {"done", "exited", "raised"}
AllFailed == rets # <<>> /\ \A i \in 1..Len(rets) : rets[i] # 0

\* C7: when the ninja step fails, the build is tried again (directory
\* recreated, cmake and ninja run again) at least once before windows_build
\* declares the build failed.
C7_RetryBeforeFailure ==
    bpc = "exited" => (CmakeRuns >= 2 /\ Len(rets) >= 2)

\* C8: windows_package is called at most once and only after a ninja run
\* that returned 0; when every ninja run returned non-zero, windows_build
\* ends in sys.exit(1) without packaging; and no more than MAXIMUM_TRY
\* build attempts are made.
C8_PackageOnlyAfterSuccess ==
    /\ packaged <= 1
    /\ (packaged = 1 => rets # <<>> /\ rets[Len(rets)] = 0 /\ bret = <<0>>)
    /\ (bpc \in {"package", "done"} => packaged = 1)
    /\ ((BuildEnded /\ AllFailed) =>
          bpc = "exited" /\ exit_code = <<1>> /\ packaged = 0)
    /\ (exit_code # <<>> => exit_code = <<1>> /\ AllFailed /\ packaged = 0)
    /\ CmakeRuns <= MAXIMUM_TRY
    /\ Len(rets) <= MAXIMUM_TRY
    /\ build_try <= MAXIMUM_TRY

C8_Witness ==
    /\ bpc = "exited" /\ exit_code = <<1>> /\ packaged = 0
    /\ rets = <<2>> /\ build_try = MAXIMUM_TRY

\* =========================================================================
\*  python/mxnet/gluon/contrib/estimator/utils.py
\* =========================================================================
MaxLen == 2     \* longest list, and most members of a composite metric
MaxDepth == 2   \* deepest nesting of composite metrics

\* Python values these functions meet.
PyNone == [t |-> "NoneType", name |-> "None", items |-> <<>>]
Metric(name) == [t |-> "EvalMetric", name |-> name, items |-> <<>>]
Composite(members) == [t |-> "CompositeEvalMetric", name |-> "composite", items |-> members]
PyList(items) == [t |-> "list", name |-> "list", items |-> items]
PyObject(name) == [t |-> "object", name |-> name, items |-> <<>>]

\* line 23: the classes imported from mxnet.gluon.metric, where
\* CompositeEvalMetric is declared as a subclass of EvalMetric.
IsInstance(x, cls) ==
    IF cls = "CompositeEvalMetric" THEN x.t = "CompositeEvalMetric"
    ELSE IF cls = "EvalMetric" THEN x.t \in {"EvalMetric", "CompositeEvalMetric"}
    ELSE x.t = cls

\* Truth value of a Python object: None and the empty list are false.
Truthy(x) ==
    IF x.t = "NoneType" THEN FALSE
    ELSE IF x.t = "list" THEN x.items # <<>>
    ELSE TRUE

Returned(list) == [raised |-> "None", value |-> list]
Raised(exc) == [raised |-> exc, value |-> <<>>]

\* lines 25-36: _check_metrics(metrics)
RECURSIVE CheckMetrics(_)
RECURSIVE FlattenComposite(_)
\* line 27: [m for metric in metrics.metrics for m in _check_metrics(metric)]
FlattenComposite(members) ==
    IF members = <<>> THEN Returned(<<>>)
    ELSE LET first == CheckMetrics(Head(members))
         IN  IF first.raised # "None" THEN first
             ELSE LET rest == FlattenComposite(Tail(members))
                  IN  IF rest.raised # "None" THEN rest
                      ELSE Returned(first.value \o rest.value)
CheckMetrics(metrics) ==
    IF IsInstance(metrics, "CompositeEvalMetric")
    THEN FlattenComposite(metrics.items)
    ELSE IF IsInstance(metrics, "EvalMetric")
    THEN Returned(<<metrics>>)
    ELSE IF ~Truthy(metrics)
    THEN Returned(<<>>)
    ELSE IF ~IsInstance(metrics, "list")
    THEN Raised("TypeError")
    ELSE IF \A i \in 1..Len(metrics.items) : IsInstance(metrics.items[i], "EvalMetric")
    THEN Returned(metrics.items)
    ELSE Raised("ValueError")

\* ---- the arguments _check_metrics is applied to
SeqsUpTo(S, n) == UNION {[1..k -> S] : k \in 0..n}
Leaves == {Metric("acc"), Metric("f1")}
RECURSIVE Composites(_)
Composites(depth) ==
    IF depth = 0 THEN {}
    ELSE {Composite(s) : s \in SeqsUpTo(Leaves \cup Composites(depth - 1), MaxLen)}
ListElements == Leaves \cup Composites(1) \cup {PyNone, PyObject("accuracy")}
MetricsInputs ==
    {PyNone} \cup Leaves \cup Composites(MaxDepth)
    \cup {PyList(s) : s \in SeqsUpTo(ListElements, MaxLen)}

\* line 25: one call of _check_metrics.
CheckMetricsCall ==
    /\ upc = "check_metrics"
    /\ uresult' = CheckMetrics(metrics_in)
    /\ upc' = "done"
    /\ UNCHANGED <<handler, known_metrics, attr_i, metrics_in>>
    /\ UNCHANGED <<measureVars, sweepVars, buildVars>>

InitMetrics ==
    /\ upc = "check_metrics"
    /\ metrics_in \in MetricsInputs
    /\ handler = <<>> /\ known_metrics = {} /\ attr_i = 0
    /\ uresult = Returned(<<>>)
    /\ MeasureIdle /\ SweepIdle /\ BuildIdle

NextMetrics == CheckMetricsCall

SpecMetrics == InitMetrics /\ [][NextMetrics]_vars

IsLeaf(x) == x.t = "EvalMetric"

\* C10: _check_metrics either raises ValueError or returns a flat list of
\* EvalMetrics none of which is a CompositeEvalMetric; it raises ValueError
\* exactly when the input is a list with an element that is not an
\* EvalMetric; it returns the empty list for None.
C10_FlatListOrValueError ==
    upc = "done" =>
        /\ \/ uresult.raised = "ValueError"
           \/ /\ uresult.raised = "None"
              /\ \A i \in 1..Len(uresult.value) : IsLeaf(uresult.value[i])
        /\ (uresult.raised = "ValueError") <=>
              (/\ metrics_in.t = "list"
               /\ \E i \in 1..Len(metrics_in.items) :
                     metrics_in.items[i].t \notin {"EvalMetric", "CompositeEvalMetric"})
        /\ (metrics_in = PyNone => uresult = Returned(<<>>))

\* ---- _check_handler_metric_ref
\* Attribute names and keywords are sequences of characters.
S_metric   == <<"m", "e", "t", "r", "i", "c">>
S_monitor  == <<"m", "o", "n", "i", "t", "o", "r">>
S_metrics  == <<"m", "e", "t", "r", "i", "c", "s">>
S_priority == <<"p", "r", "i", "o", "r", "i", "t", "y">>

\* keyword in attribute: substring test.
Contains(keyword, attribute) ==
    \E i \in 1..(Len(attribute) - Len(keyword) + 1) :
        SubSeq(attribute, i, i + Len(keyword) - 1) = keyword

\* x or y, for strings: x when it is non-empty, else y.
PyOr(x, y) == IF x # <<>> THEN x ELSE y

\* line 40: the list ['metric' or 'monitor']
Keywords == <<PyOr(S_metric, S_monitor)>>

\* line 39: dir(handler), which is sorted by name.
Dir == <<S_metrics, S_monitor, S_priority>>

\* lines 50-54: _check_metric_known raises when metric not in known_metrics.
MetricKnown(metric, known) == metric \in known

\* lines 42-48: the check of one reference; TRUE when it raises ValueError.
ReferenceRaises(reference, known) ==
    IF ~Truthy(reference) THEN FALSE
    ELSE IF IsInstance(reference, "list")
    THEN \E i \in 1..Len(reference.items) : ~MetricKnown(reference.items[i], known)
    ELSE ~MetricKnown(reference, known)

\* lines 39-48: one iteration of the loop over dir(handler).
CheckAttribute ==
    /\ upc = "check_handler"
    /\ attr_i < Len(Dir)
    /\ LET attribute == Dir[attr_i + 1]
       IN  IF /\ \E k \in 1..Len(Keywords) : Contains(Keywords[k], attribute)
              /\ ReferenceRaises(handler[attribute], known_metrics)
           THEN /\ uresult' = Raised("ValueError")
                /\ upc' = "raised"
           ELSE /\ UNCHANGED <<uresult, upc>>
    /\ attr_i' = attr_i + 1
    /\ UNCHANGED <<handler, known_metrics, metrics_in>>
    /\ UNCHANGED <<measureVars, sweepVars, buildVars>>

\* line 39: dir(handler) is exhausted; the function returns None.
HandlerChecked ==
    /\ upc = "check_handler"
    /\ attr_i >= Len(Dir)
    /\ upc' = "done"
    /\ UNCHANGED <<handler, known_metrics, attr_i, metrics_in, uresult>>
    /\ UNCHANGED <<measureVars, sweepVars, buildVars>>

\* ---- the handlers _check_handler_metric_ref is applied to
AttributeValues ==
    {PyNone, PyObject("int")} \cup Leaves
    \cup {PyList(s) : s \in SeqsUpTo(Leaves, MaxLen)}

InitHandler ==
    /\ upc = "check_handler"
    /\ handler \in [{Dir[i] : i \in 1..Len(Dir)} -> AttributeValues]
    /\ known_metrics \in SUBSET Leaves
    /\ attr_i = 0
    /\ metrics_in = <<>>
    /\ uresult = Returned(<<>>)
    /\ MeasureIdle /\ SweepIdle /\ BuildIdle

NextHandler == CheckAttribute \/ HandlerChecked

SpecHandler == InitHandler /\ [][NextHandler]_vars

ClaimedKeywords == {S_metric, S_monitor}
UnknownReference(reference) ==
    /\ Truthy(reference)
    /\ IF reference.t = "list"
       THEN \E i \in 1..Len(reference.items) : reference.items[i] \notin known_metrics
       ELSE reference \notin known_metrics

\* C9: _check_handler_metric_ref raises ValueError exactly when some
\* attribute whose name contains 'metric' or 'monitor' holds a truthy value
\* that is not in known_metrics (or a list with an element not in it).
C9_MetricAndMonitorChecked ==
    upc \in {"done", "raised"} =>
        ((upc = "raised" /\ uresult.raised = "ValueError") <=>
            \E attribute \in DOMAIN handler :
                /\ \E kw \in ClaimedKeywords : Contains(kw, attribute)
                /\ UnknownReference(handler[attribute]))

=============================================================================
